---- MODULE Spec2Model ----
(***************************************************************************)
(* Model of the YouTube downloader front end (src/main.py): the URL        *)
(* validator, the metadata fetcher, the file size formatter, the           *)
(* downloader and the Streamlit script main(), which runs top to bottom    *)
(* once per user interaction against st.session_state.                     *)
(*                                                                         *)
(* Text is modelled as a sequence of one-character strings, so that the    *)
(* regular expressions of is_valid_youtube_url are matched character by    *)
(* character.  Byte counts are modelled as little-endian sequences of      *)
(* base-1024 digits ("limbs"), so that counts up to the TB range stay      *)
(* within the model checker's integers.                                    *)
(***************************************************************************)
EXTENDS Integers, Sequences, FiniteSets, TLC

VARIABLES
    url,            \* main: the content of the URL text input (line 200)
    format_type,    \* main: the value of the format type radio (line 256)
    ss_video_info,  \* st.session_state.video_info, Nothing until first stored
    ss_formats,     \* st.session_state.formats
    ss_url,         \* st.session_state.url
    shown,          \* messages rendered by the last run of main(), in order
    offered,        \* number of st.download_button file widgets of the last run
    lib_calls,      \* the library calls the last run of main() made, in order
    last_action,    \* what triggered the last run of main(), and how it ended
    fetch_seq,      \* history: tag of the latest successful fetch (0: none yet)
    written_by,     \* history: the fetch tag each session field was written under
    v_arg,          \* is_valid_youtube_url: the argument
    v_res,          \* is_valid_youtube_url: the returned value
    s_arg,          \* format_filesize: the argument, as limbs
    s_res,          \* format_filesize: the returned text
    g_url,          \* get_video_info: the argument
    g_lib,          \* get_video_info: what ydl.extract_info does
    g_res,          \* get_video_info: what it returned and emitted
    pc              \* function specifications: "call" before, "done" after

sessionVars == <<url, format_type, ss_video_info, ss_formats, ss_url, shown,
                 offered, lib_calls, last_action, fetch_seq, written_by>>
validVars == <<v_arg, v_res>>
sizeVars == <<s_arg, s_res>>
infoVars == <<g_url, g_lib, g_res>>

\* what a run of main() never touches
functionVars == <<validVars, sizeVars, infoVars, pc>>

vars == <<sessionVars, functionVars>>

\* a key missing from a dict of the library
ABSENT == "ABSENT"

(***************************************************************************)
(* Text                                                                    *)
(***************************************************************************)
T_empty == <<>>
T_http == <<"h", "t", "t", "p", ":", "/", "/">>
T_https == <<"h", "t", "t", "p", "s", ":", "/", "/">>
T_www == <<"w", "w", "w", ".">>
T_youtube == <<"y", "o", "u", "t", "u", "b", "e">>
T_youtu == <<"y", "o", "u", "t", "u">>
T_nocookie == <<"y", "o", "u", "t", "u", "b", "e", "-", "n", "o", "c", "o", "o", "k", "i", "e">>
T_youtub == <<"y", "o", "u", "t", "u", "b">>
T_vimeo == <<"v", "i", "m", "e", "o">>
T_dot == <<".">>
T_com == <<"c", "o", "m">>
T_be == <<"b", "e">>
T_org == <<"o", "r", "g">>
T_slash == <<"/">>
T_watch == <<"w", "a", "t", "c", "h", "?", "v", "=">>
T_embed == <<"e", "m", "b", "e", "d", "/">>
T_v == <<"v", "/">>
T_abc == <<"a", "b", "c">>
T_feed == <<"f", "e", "e", "d">>
T_12345 == <<"1", "2", "3", "4", "5">>

RECURSIVE Concat(_)
Concat(parts) ==
    IF parts = <<>> THEN <<>> ELSE Head(parts) \o Concat(Tail(parts))

\* s[i..] starts with lit.
StartsWithAt(s, i, lit) ==
    /\ i + Len(lit) - 1 <= Len(s)
    /\ \A k \in 1..Len(lit) : s[i + k - 1] = lit[k]

(***************************************************************************)
(* is_valid_youtube_url (lines 54-67)                                      *)
(*                                                                         *)
(* A pattern is a sequence of groups, each group the finite set of texts   *)
(* it can match; an optional group contains the empty text.                *)
(***************************************************************************)
OptScheme == {T_empty, T_http, T_https}     \* (https?://)?
OptWww == {T_empty, T_www}                  \* (www\.)?

youtube_patterns == <<
    <<OptScheme, OptWww, {T_youtube, T_youtu, T_nocookie}, {T_dot}, {T_com, T_be}, {T_slash}>>,
    <<OptScheme, OptWww, {T_youtu \o T_dot \o T_be \o T_slash}>>,
    <<OptScheme, OptWww, {T_youtube \o T_dot \o T_com \o T_slash \o T_watch}>>,
    <<OptScheme, OptWww, {T_youtube \o T_dot \o T_com \o T_slash \o T_embed}>>,
    <<OptScheme, OptWww, {T_youtube \o T_dot \o T_com \o T_slash \o T_v}>> >>

\* The groups pattern[k..] match some text starting at position i of s.
RECURSIVE MatchAt(_, _, _, _)
MatchAt(pattern, k, s, i) ==
    IF k > Len(pattern) THEN TRUE
    ELSE \E alt \in pattern[k] :
            /\ StartsWithAt(s, i, alt)
            /\ MatchAt(pattern, k + 1, s, i + Len(alt))

\* re.search: a match starting anywhere in s.
re_search(pattern, s) == \E i \in 1..(Len(s) + 1) : MatchAt(pattern, 1, s, i)

\* re.match: a match starting at the first character only.
re_match(pattern, s) == MatchAt(pattern, 1, s, 1)

is_valid_anchored(u) ==
    \E n \in 1..Len(youtube_patterns) : re_match(youtube_patterns[n], u)

is_valid_youtube_url(u) ==
    \E n \in 1..Len(youtube_patterns) : re_search(youtube_patterns[n], u)

(***************************************************************************)
(* format_filesize (lines 126-135)                                         *)
(*                                                                         *)
(* A byte count n is the limb sequence d with n = d[1] + d[2]*Base + ...   *)
(* After k passes of "size_bytes /= 1024.0" the value is n / Base^k: limbs *)
(* k+1.. are its integer part and limbs 1..k its fraction.  The division   *)
(* by a power of two is exact in floating point for counts below 2^53.     *)
(***************************************************************************)
Base == 1024
NumLimbs == 5
LimbValues == {0, 1, 2, 500, 512, 1023}
ByteCounts == [1..NumLimbs -> LimbValues]

units == <<"B", "KB", "MB", "GB">>
UnknownSize == [whole |-> 0, tenth |-> 0, unit |-> "Unknown size"]
NoText == [whole |-> 0, tenth |-> 0, unit |-> ""]

\* size_bytes == 0
IsZero(d) == \A j \in 1..Len(d) : d[j] = 0

\* size_bytes <= 1024.0 after k divisions
AtMostBase(d, k) ==
    \/ \A j \in (k + 2)..Len(d) : d[j] = 0
    \/ /\ k + 2 <= Len(d)
       /\ d[k + 2] = 1
       /\ \A j \in 1..Len(d) : j # k + 2 => d[j] = 0

\* size_bytes < 1024.0 after k divisions (line 132)
BelowBase(d, k) == \A j \in (k + 2)..Len(d) : d[j] = 0

RECURSIVE WholePart(_, _)
\* the integer part of n / Base^k
WholePart(d, k) ==
    IF k >= Len(d) THEN 0
    ELSE d[k + 1] + Base * WholePart(d, k + 1)

RECURSIVE TimesTen(_, _, _, _, _)
\* ten times the fraction of n / Base^k: the integer part t (0..9) and the
\* limbs r of what remains, by long multiplication from the lowest limb up
TimesTen(d, k, j, carry, acc) ==
    IF j > k THEN [t |-> carry, r |-> acc]
    ELSE LET x == d[j] * 10 + carry
         IN  TimesTen(d, k, j + 1, x \div Base, Append(acc, x % Base))

RemAboveHalf(r) ==
    /\ Len(r) > 0
    /\ \/ r[Len(r)] > Base \div 2
       \/ /\ r[Len(r)] = Base \div 2
          /\ \E j \in 1..(Len(r) - 1) : r[j] # 0

RemIsHalf(r) ==
    /\ Len(r) > 0
    /\ r[Len(r)] = Base \div 2
    /\ \A j \in 1..(Len(r) - 1) : r[j] = 0

\* f"{size_bytes:.1f} {unit}": one decimal, correctly rounded, ties to even
OneDecimal(d, k, unit) ==
    LET m == TimesTen(d, k, 1, 0, <<>>)
        up == RemAboveHalf(m.r) \/ (RemIsHalf(m.r) /\ m.t % 2 = 1)
        tenths == WholePart(d, k) * 10 + m.t + (IF up THEN 1 ELSE 0)
    IN  [whole |-> tenths \div 10, tenth |-> tenths % 10, unit |-> unit]

RECURSIVE UnitLoop(_, _)
\* the for loop of lines 131-135, entered at units[u] after u - 1 divisions
UnitLoop(d, u) ==
    IF u > Len(units) THEN OneDecimal(d, Len(units), "TB")
    ELSE IF BelowBase(d, u - 1) THEN OneDecimal(d, u - 1, units[u])
    ELSE UnitLoop(d, u + 1)

format_filesize(d) ==
    IF IsZero(d) THEN UnknownSize ELSE UnitLoop(d, 1)

(***************************************************************************)
(* The extraction library (yt_dlp.YoutubeDL), the sole collaborator.       *)
(*                                                                         *)
(* What a call does is chosen by the environment.  extract_info either     *)
(* raises, returns None, or returns an info dict whose 'title' and         *)
(* 'formats' keys may be missing; each rendition of 'formats' may lack     *)
(* 'vcodec', 'acodec' or 'format_id'.  A missing key is ABSENT.  An        *)
(* optional value (None, or an unset session attribute) is the empty       *)
(* sequence and a present value x is <<x>>.                                *)
(***************************************************************************)
Some(x) == <<x>>
Nothing == <<>>

MaxFormats == 2
MaxSessionFormats == 2
MaxFiles == 2

VideoCodecs == {"none", "avc1", ABSENT}
AudioCodecs == {"none", "mp4a", ABSENT}
FormatIds == {"18", "140", ABSENT}
Titles == {"Sample", ABSENT}
LibErrors == {"", "Video unavailable", "Network is unreachable"}

Renditions == [vcodec : VideoCodecs, acodec : AudioCodecs, format_id : FormatIds]

\* the renditions the session specification draws from: one per class, and
\* one whose format_id is missing
SessionRenditions ==
    { [vcodec |-> "avc1", acodec |-> "mp4a", format_id |-> "18"],
      [vcodec |-> "none", acodec |-> "mp4a", format_id |-> "140"],
      [vcodec |-> "avc1", acodec |-> "none", format_id |-> "137"],
      [vcodec |-> "avc1", acodec |-> "mp4a", format_id |-> ABSENT] }

SeqsUpTo(S, n) == UNION { [1..k -> S] : k \in 0..n }

Raise(e) == [kind |-> "raise", err |-> e, title |-> ABSENT, has_formats |-> FALSE, formats |-> <<>>]
ReturnNone == [kind |-> "None", err |-> "", title |-> ABSENT, has_formats |-> FALSE, formats |-> <<>>]
Info(title, has, fs) == [kind |-> "info", err |-> "", title |-> title, has_formats |-> has, formats |-> fs]

ExtractOutcomesOf(titles, rends, n) ==
    { Raise(e) : e \in LibErrors }
        \cup { ReturnNone }
        \cup { Info(ti, FALSE, <<>>) : ti \in titles }
        \cup { Info(ti, TRUE, fs) : ti \in titles, fs \in SeqsUpTo(rends, n) }

ExtractOutcomes == ExtractOutcomesOf(Titles, Renditions, MaxFormats)
SessionExtractOutcomes == ExtractOutcomesOf({"Sample"}, SessionRenditions, MaxSessionFormats)

\* ydl.download: raises (possibly after writing partial files) or returns
\* after writing files into the scratch directory
DownloadOutcomes ==
    [kind : {"raise"}, err : LibErrors, files : 0..MaxFiles]
        \cup [kind : {"ok"}, err : {""}, files : 0..MaxFiles]

(***************************************************************************)
(* get_video_info (lines 69-124)                                           *)
(***************************************************************************)
Msg(kind, text) == [kind |-> kind, text |-> text]
\* an entry of lib_calls: the call, and the message of what it raised, if it did
Raised(out) == IF out.kind = "raise" THEN Some(out.err) ELSE Nothing
ExtractCall(u, lib) ==
    [op |-> "extract_info", url |-> u, format |-> "", noplaylist |-> FALSE,
     raised |-> Raised(lib)]

\* lines 81-88, of which the model keeps the title
NormalizeInfo(lib) ==
    [title |-> IF lib.title = ABSENT THEN "Unknown Title" ELSE lib.title]

\* line 94, with "or" for "and"
IsVideoAudio_Or(f) == f.vcodec # "none" \/ f.acodec # "none"

\* line 94: f.get('vcodec') != 'none' and f.get('acodec') != 'none'
IsVideoAudio(f) == f.vcodec # "none" /\ f.acodec # "none"

\* line 108: f.get('vcodec') == 'none' and f.get('acodec') != 'none'
IsAudioOnly(f) == f.vcodec = "none" /\ f.acodec # "none"

\* lines 98-104 and 112-118, of which the model keeps format_id and type
FormatOption(f, type) == [format_id |-> f.format_id, type |-> type]

RECURSIVE MapOption(_, _)
MapOption(fs, type) ==
    IF fs = <<>> THEN <<>>
    ELSE <<FormatOption(Head(fs), type)>> \o MapOption(Tail(fs), type)

\* the two loops of lines 93-118: the video+audio pass, then the audio pass
CollectFormats(fs) ==
    MapOption(SelectSeq(fs, IsVideoAudio), "video+audio")
        \o MapOption(SelectSeq(fs, IsAudioOnly), "audio-only")

\* f['format_id'] of lines 99 and 113 raises KeyError for a listed rendition
KeyErrorIn(fs) ==
    \E i \in 1..Len(fs) :
        /\ IsVideoAudio(fs[i]) \/ IsAudioOnly(fs[i])
        /\ fs[i].format_id = ABSENT

\* str(e) of the exception that reaches line 122, or Nothing
ExceptionIn(lib) ==
    CASE lib.kind = "raise" -> Some(lib.err)
      [] lib.kind = "None" -> Some("'NoneType' object has no attribute 'get'")
      [] lib.has_formats /\ KeyErrorIn(lib.formats) -> Some("'format_id'")
      [] OTHER -> Nothing

Failure(u, lib, e) ==
    [video_info |-> Nothing, formats |-> Nothing,
     errors |-> <<Msg("error", <<"Error fetching video info: ", e>>)>>,
     calls |-> <<ExtractCall(u, lib)>>]

\* an except clause that keeps what was built before the exception
get_video_info_partial(u, lib) ==
    LET exc == ExceptionIn(lib)
    IN  IF exc # Nothing
        THEN IF lib.kind = "info"
             THEN [Failure(u, lib, exc[1]) EXCEPT !.video_info = Some(NormalizeInfo(lib))]
             ELSE Failure(u, lib, exc[1])
        ELSE [video_info |-> Some(NormalizeInfo(lib)),
              formats |-> Some(IF lib.has_formats THEN CollectFormats(lib.formats) ELSE <<>>),
              errors |-> <<>>,
              calls |-> <<ExtractCall(u, lib)>>]

get_video_info(u, lib) ==
    LET exc == ExceptionIn(lib)
    IN  IF exc # Nothing
        THEN Failure(u, lib, exc[1])
        ELSE [video_info |-> Some(NormalizeInfo(lib)),
              formats |-> Some(IF lib.has_formats THEN CollectFormats(lib.formats) ELSE <<>>),
              errors |-> <<>>,
              calls |-> <<ExtractCall(u, lib)>>]

(***************************************************************************)
(* download_video (lines 151-166)                                          *)
(***************************************************************************)
DownloadCall(u, format_id, noplaylist, out) ==
    [op |-> "download", url |-> u, format |-> format_id, noplaylist |-> noplaylist,
     raised |-> Raised(out)]

\* a second attempt after the first one raised
download_video_retry(u, format_id, out) ==
    IF out.kind = "raise"
    THEN [success |-> FALSE, message |-> <<"Download failed: ", out.err>>,
          calls |-> <<DownloadCall(u, format_id, TRUE, out), DownloadCall(u, format_id, TRUE, out)>>]
    ELSE [success |-> TRUE, message |-> <<"Download completed successfully!">>,
          calls |-> <<DownloadCall(u, format_id, TRUE, out)>>]

download_video(u, format_id, out) ==
    IF out.kind = "raise"
    THEN [success |-> FALSE, message |-> <<"Download failed: ", out.err>>,
          calls |-> <<DownloadCall(u, format_id, TRUE, out)>>]
    ELSE [success |-> TRUE, message |-> <<"Download completed successfully!">>,
          calls |-> <<DownloadCall(u, format_id, TRUE, out)>>]

(***************************************************************************)
(* main (lines 169-340): one run of the script per user interaction        *)
(***************************************************************************)
U_vimeo == T_vimeo \o T_dot \o T_com \o T_slash \o T_12345
U_watch == T_youtube \o T_dot \o T_com \o T_slash \o T_watch \o T_abc
U_short == T_youtu \o T_dot \o T_be \o T_slash \o T_abc
U_feed == T_youtube \o T_dot \o T_com \o T_slash \o T_feed

\* what the user may type into the URL field
SessionUrls == {T_empty, U_vimeo, U_watch, U_short, U_feed}

FormatTypes == {"Video + Audio", "Audio Only"}
FetchTags == 3

IsVideoOption(f) == f.type = "video+audio"
IsAudioOption(f) == f.type = "audio-only"

\* lines 253-263
formats_to_show(fs, ft) ==
    LET video_formats == SelectSeq(fs, IsVideoOption)
        audio_formats == SelectSeq(fs, IsAudioOption)
    IN  IF ft = "Video + Audio" /\ video_formats # <<>> THEN video_formats
        ELSE IF ft = "Audio Only" /\ audio_formats # <<>> THEN audio_formats
        ELSE <<>>

\* line 227: hasattr(st.session_state, 'video_info') and st.session_state.video_info
InfoDisplayedFor(vi) == vi # Nothing

\* line 249: hasattr(st.session_state, 'formats') and st.session_state.formats
OptionsDisplayedFor(vi, fs) == InfoDisplayedFor(vi) /\ fs # Nothing /\ fs[1] # <<>>

\* line 265: the quality selectbox and the Download button are rendered
DownloadRenderedFor(vi, fs, ft) ==
    OptionsDisplayedFor(vi, fs) /\ formats_to_show(fs[1], ft) # <<>>

\* lines 329-330: what the display part of a run adds to the messages
DisplayMessages(vi, fs, ft) ==
    IF OptionsDisplayedFor(vi, fs) /\ formats_to_show(fs[1], ft) = <<>>
    THEN <<Msg("warning", <<"No formats available for the selected type.">>)>>
    ELSE <<>>

InfoDisplayed == InfoDisplayedFor(ss_video_info)
OptionsDisplayed == OptionsDisplayedFor(ss_video_info, ss_formats)
DownloadRendered == DownloadRenderedFor(ss_video_info, ss_formats, format_type)

NextTag == (fetch_seq % FetchTags) + 1
NoAction == [name |-> "none", ok |-> TRUE, idx |-> 0]

\* a run that clicks nothing and stores nothing
Rerun(ft) ==
    /\ shown' = DisplayMessages(ss_video_info, ss_formats, ft)
    /\ offered' = 0
    /\ lib_calls' = <<>>
    /\ UNCHANGED <<ss_video_info, ss_formats, ss_url, fetch_seq, written_by>>

\* the user edits the URL field (line 200)
EnterUrl ==
    \E u \in SessionUrls :
        /\ u # url
        /\ url' = u
        /\ last_action' = [name |-> "enter_url", ok |-> TRUE, idx |-> 0]
        /\ Rerun(format_type)
        /\ UNCHANGED <<format_type, functionVars>>

\* the user picks the other bucket (line 256)
ChooseFormatType ==
    \E ft \in FormatTypes :
        /\ OptionsDisplayed
        /\ ft # format_type
        /\ format_type' = ft
        /\ last_action' = [name |-> "choose_type", ok |-> TRUE, idx |-> 0]
        /\ Rerun(ft)
        /\ UNCHANGED <<url, functionVars>>

\* the inert Generate Summary and Download transcript buttons (lines 335, 338)
ClickInert ==
    /\ InfoDisplayed
    /\ last_action' = [name |-> "inert", ok |-> TRUE, idx |-> 0]
    /\ Rerun(format_type)
    /\ UNCHANGED <<url, format_type, functionVars>>

\* lines 207-222 ending in an error, then the display part
GetInfoFailed(errors, calls) ==
    /\ shown' = errors \o DisplayMessages(ss_video_info, ss_formats, format_type)
    /\ lib_calls' = calls
    /\ last_action' = [name |-> "get_info", ok |-> FALSE, idx |-> 0]
    /\ UNCHANGED <<ss_video_info, ss_formats, ss_url, fetch_seq, written_by>>

\* lines 217-220, then the display part
GetInfoStored(r) ==
    /\ ss_video_info' = r.video_info
    /\ ss_formats' = r.formats
    /\ ss_url' = Some(url)
    /\ fetch_seq' = NextTag
    /\ written_by' = [video_info |-> NextTag, formats |-> NextTag, url |-> NextTag]
    /\ shown' = r.errors
                \o <<Msg("success", <<"Video information fetched successfully!">>)>>
                \o DisplayMessages(r.video_info, r.formats, format_type)
    /\ lib_calls' = r.calls
    /\ last_action' = [name |-> "get_info", ok |-> TRUE, idx |-> 0]

FetchFailedMsg ==
    Msg("error", <<"Failed to fetch video information. Please check the URL and try again.">>)

\* line 216: if video_info and formats
FetchSucceeded(r) ==
    /\ r.video_info # Nothing
    /\ r.formats # Nothing
    /\ r.formats[1] # <<>>

\* the fetch made before the URL is looked at
ClickGetInfo_FetchFirst ==
    /\ offered' = 0
    /\ UNCHANGED <<url, format_type, functionVars>>
    /\ \E lib \in SessionExtractOutcomes :
          LET r == get_video_info(url, lib)
          IN  IF url = T_empty
              THEN GetInfoFailed(<<Msg("error", <<"Please enter a YouTube URL!">>)>>, r.calls)
              ELSE IF ~is_valid_youtube_url(url)
              THEN GetInfoFailed(<<Msg("error", <<"Please enter a valid YouTube URL!">>)>>, r.calls)
              ELSE IF FetchSucceeded(r)
              THEN GetInfoStored(r)
              ELSE GetInfoFailed(r.errors \o <<FetchFailedMsg>>, r.calls)

\* whatever the fetch returned is stored, failed or not
ClickGetInfo_StoreAlways ==
    /\ offered' = 0
    /\ UNCHANGED <<url, format_type, functionVars>>
    /\ IF url = T_empty
       THEN GetInfoFailed(<<Msg("error", <<"Please enter a YouTube URL!">>)>>, <<>>)
       ELSE IF ~is_valid_youtube_url(url)
       THEN GetInfoFailed(<<Msg("error", <<"Please enter a valid YouTube URL!">>)>>, <<>>)
       ELSE \E lib \in SessionExtractOutcomes :
               LET r == get_video_info(url, lib)
               IN  IF FetchSucceeded(r)
                   THEN GetInfoStored(r)
                   ELSE /\ ss_video_info' = r.video_info
                        /\ ss_formats' = r.formats
                        /\ ss_url' = Some(url)
                        /\ UNCHANGED <<fetch_seq, written_by>>
                        /\ shown' = r.errors \o <<FetchFailedMsg>>
                                    \o DisplayMessages(r.video_info, r.formats, format_type)
                        /\ lib_calls' = r.calls
                        /\ last_action' = [name |-> "get_info", ok |-> FALSE, idx |-> 0]

\* the user clicks Get Video Info (lines 207-222)
ClickGetInfo ==
    /\ offered' = 0
    /\ UNCHANGED <<url, format_type, functionVars>>
    /\ IF url = T_empty
       THEN GetInfoFailed(<<Msg("error", <<"Please enter a YouTube URL!">>)>>, <<>>)
       ELSE IF ~is_valid_youtube_url(url)
       THEN GetInfoFailed(<<Msg("error", <<"Please enter a valid YouTube URL!">>)>>, <<>>)
       ELSE \E lib \in SessionExtractOutcomes :
               LET r == get_video_info(url, lib)
               IN  IF FetchSucceeded(r)
                   THEN GetInfoStored(r)
                   ELSE GetInfoFailed(r.errors \o <<FetchFailedMsg>>, r.calls)

\* lines 279-323 for the option at position idx of the list on display
DownloadWith(u, formats, idx, out) ==
    LET selected_format == formats[idx]
        r == download_video(u, selected_format.format_id, out)
    IN  /\ lib_calls' = r.calls
        /\ shown' = <<Msg(IF r.success THEN "success" ELSE "error", r.message)>>
        /\ offered' = IF r.success THEN out.files ELSE 0
        /\ last_action' = [name |-> "download", ok |-> r.success, idx |-> idx]
        /\ UNCHANGED <<url, format_type, ss_video_info, ss_formats, ss_url,
                       fetch_seq, written_by, functionVars>>

\* a Download button outside the block of line 227, for the URL of the field
ClickDownload_Ungated ==
    \E out \in DownloadOutcomes :
        DownloadWith(url, <<[format_id |-> "best", type |-> "video+audio"]>>, 1, out)

\* the URL of the field passed for the stored one
ClickDownload_FieldUrl ==
    /\ DownloadRendered
    /\ \E idx \in 1..Len(formats_to_show(ss_formats[1], format_type)) :
       \E out \in DownloadOutcomes :
          DownloadWith(url, formats_to_show(ss_formats[1], format_type), idx, out)

\* the user selects a quality and clicks Download (lines 273-323)
ClickDownload ==
    /\ DownloadRendered
    /\ \E selected_format_idx \in 1..Len(formats_to_show(ss_formats[1], format_type)) :
       \E out \in DownloadOutcomes :
          DownloadWith(ss_url[1], formats_to_show(ss_formats[1], format_type),
                       selected_format_idx, out)

(***************************************************************************)
(* Specifications                                                          *)
(***************************************************************************)
MaxJunk == 1
Junk == { [j \in 1..k |-> "x"] : k \in 0..MaxJunk }

\* the strings is_valid_youtube_url is applied to
UrlInputs ==
    { Concat(<<junk, scheme, www, host, dot, tld, slash, path>>) :
        junk \in Junk,
        scheme \in {T_empty, T_http, T_https},
        www \in {T_empty, T_www},
        host \in {T_youtube, T_youtu, T_nocookie, T_youtub, T_vimeo},
        dot \in {T_dot, T_empty},
        tld \in {T_com, T_be, T_org},
        slash \in {T_slash, T_empty},
        path \in {T_empty, T_watch \o T_abc, T_embed \o T_abc, T_v \o T_abc, T_feed, T_12345} }

NoResult ==
    [video_info |-> Nothing, formats |-> Nothing, errors |-> <<>>, calls |-> <<>>]

\* a fresh session: nothing typed, nothing stored (lines 200, 227)
SessionStart ==
    /\ url = T_empty
    /\ format_type = "Video + Audio"
    /\ ss_video_info = Nothing
    /\ ss_formats = Nothing
    /\ ss_url = Nothing
    /\ shown = <<>>
    /\ offered = 0
    /\ lib_calls = <<>>
    /\ last_action = NoAction
    /\ fetch_seq = 0
    /\ written_by = [video_info |-> 0, formats |-> 0, url |-> 0]

ValidIdle == v_arg = T_empty /\ v_res = FALSE
SizeIdle == s_arg = [j \in 1..NumLimbs |-> 0] /\ s_res = NoText
InfoIdle == g_url = T_empty /\ g_lib = ReturnNone /\ g_res = NoResult

Init == SessionStart /\ ValidIdle /\ SizeIdle /\ InfoIdle /\ pc = "session"

Next ==
    \/ EnterUrl
    \/ ClickGetInfo
    \/ ChooseFormatType
    \/ ClickInert
    \/ ClickDownload

Spec == Init /\ [][Next]_vars

\* is_valid_youtube_url applied to each string of UrlInputs
InitValid ==
    /\ SessionStart /\ SizeIdle /\ InfoIdle
    /\ v_arg \in UrlInputs
    /\ v_res = FALSE
    /\ pc = "call"

CallValid ==
    /\ pc = "call"
    /\ v_res' = is_valid_youtube_url(v_arg)
    /\ pc' = "done"
    /\ UNCHANGED <<v_arg, sessionVars, sizeVars, infoVars>>

SpecValid == InitValid /\ [][CallValid]_vars

\* format_filesize applied to each byte count of ByteCounts
InitSize ==
    /\ SessionStart /\ ValidIdle /\ InfoIdle
    /\ s_arg \in ByteCounts
    /\ s_res = NoText
    /\ pc = "call"

CallSize ==
    /\ pc = "call"
    /\ s_res' = format_filesize(s_arg)
    /\ pc' = "done"
    /\ UNCHANGED <<s_arg, sessionVars, validVars, infoVars>>

SpecSize == InitSize /\ [][CallSize]_vars

\* get_video_info applied to each URL and each behaviour of the library
InitInfo ==
    /\ SessionStart /\ ValidIdle /\ SizeIdle
    /\ g_url \in SessionUrls
    /\ g_lib \in ExtractOutcomes
    /\ g_res = NoResult
    /\ pc = "call"

CallInfo ==
    /\ pc = "call"
    /\ g_res' = get_video_info(g_url, g_lib)
    /\ pc' = "done"
    /\ UNCHANGED <<g_url, g_lib, sessionVars, validVars, sizeVars>>

SpecInfo == InitInfo /\ [][CallInfo]_vars

(***************************************************************************)
(* Properties                                                              *)
(***************************************************************************)
DownloadCalls == SelectSeq(lib_calls, LAMBDA c : c.op = "download")
ExtractCalls == SelectSeq(lib_calls, LAMBDA c : c.op = "extract_info")
SessionData == <<ss_video_info, ss_formats, ss_url>>

\* C1: the library's download operation is invoked only in a session in which
\* an earlier Get Video Info action completed successfully, that is, stored
\* video_info, formats and url.
C1_DownloadOnlyAfterFetch ==
    DownloadCalls # <<>> =>
        /\ fetch_seq # 0
        /\ ss_video_info # Nothing
        /\ ss_formats # Nothing
        /\ ss_url # Nothing

C1_Witness ==
    /\ last_action.name = "download"
    /\ DownloadCalls # <<>>
    /\ fetch_seq # 0

\* C2: in every state where the URL of the input field differs from the URL
\* the stored format list was fetched for, the Download action is unavailable.
C2_DownloadDisabledOnUrlChange ==
    (ss_url # Nothing /\ url # ss_url[1]) => ~DownloadRendered

\* C3: a Get Video Info or Download action that ends in failure leaves
\* video_info, formats and url of the session exactly as they were, and the
\* user can act again: Get Video Info stays available, and so does Download
\* where it was on display.
C3_FailureLeavesSession ==
    /\ [][~last_action'.ok => SessionData' = SessionData]_vars
    /\ [](~last_action.ok =>
            /\ ENABLED ClickGetInfo
            /\ ENABLED EnterUrl
            /\ DownloadRendered => ENABLED ClickDownload)

C3_Witness ==
    /\ last_action = [name |-> "get_info", ok |-> FALSE, idx |-> 0]
    /\ ExtractCalls # <<>>
    /\ ss_video_info # Nothing

\* C4: Get Video Info on an empty URL, or on one is_valid_youtube_url rejects,
\* shows an error message and makes no library call in that action.
C4_ValidationBeforeNetwork ==
    (last_action.name = "get_info" /\ (url = T_empty \/ ~is_valid_youtube_url(url))) =>
        /\ lib_calls = <<>>
        /\ ~last_action.ok
        /\ shown # <<>>
        /\ shown[1].kind = "error"

C4_Witness ==
    /\ last_action.name = "get_info"
    /\ url = U_vimeo
    /\ shown # <<>>
    /\ shown[1] = Msg("error", <<"Please enter a valid YouTube URL!">>)

\* C5: when the library raises during get_video_info, at the metadata call or
\* while the result is normalized (the result is None, or a rendition that is
\* listed has no format_id), get_video_info returns no info and no formats and
\* emits a non-empty error message; it never returns a VideoInfo with an error.
C5_Raised(lib) ==
    \/ lib.kind = "raise"
    \/ lib.kind = "None"
    \/ /\ lib.kind = "info"
       /\ lib.has_formats
       /\ \E i \in 1..Len(lib.formats) :
             lib.formats[i].acodec # "none" /\ lib.formats[i].format_id = ABSENT

C5_NonEmptyError(m) ==
    m.kind = "error" /\ \E k \in 1..Len(m.text) : m.text[k] # ""

C5_RaiseGivesEmptyResult ==
    pc = "done" =>
        /\ C5_Raised(g_lib) =>
              /\ g_res.video_info = Nothing
              /\ g_res.formats = Nothing
              /\ Len(g_res.errors) = 1
              /\ C5_NonEmptyError(g_res.errors[1])
        /\ g_res.errors # <<>> => g_res.video_info = Nothing /\ g_res.formats = Nothing

C5_Witness ==
    /\ pc = "done"
    /\ g_lib.kind = "info"
    /\ g_lib.title = "Sample"
    /\ g_res.errors # <<>>
    /\ g_res.video_info = Nothing

\* C6: a Download action calls the library's download operation exactly once,
\* with playlist expansion disabled and the identifier of the selected format;
\* when the call raises there is no second call, the message shown is the
\* error message ending in the library's own text unaltered, and no file is
\* offered.
C6_SingleDownloadCall ==
    last_action.name = "download" =>
        /\ Len(lib_calls) = 1
        /\ lib_calls[1].op = "download"
        /\ lib_calls[1].noplaylist
        /\ LET options == formats_to_show(ss_formats[1], format_type)
           IN  /\ last_action.idx \in 1..Len(options)
               /\ lib_calls[1].format = options[last_action.idx].format_id
        /\ last_action.ok = (lib_calls[1].raised = Nothing)
        /\ lib_calls[1].raised # Nothing =>
              /\ Len(shown) = 1
              /\ shown[1].kind = "error"
              /\ shown[1].text[Len(shown[1].text)] = lib_calls[1].raised[1]
              /\ offered = 0

C6_Witness ==
    /\ last_action.name = "download"
    /\ ~last_action.ok
    /\ Len(lib_calls) = 1
    /\ lib_calls[1].raised = Some("Video unavailable")
    /\ offered = 0

\* C7: get_video_info puts a rendition in the video-plus-audio bucket exactly
\* when neither its video codec nor its audio codec is "none", in the
\* audio-only bucket exactly when its video codec is "none" and its audio
\* codec is not, and in neither bucket otherwise; no rendition is in both
\* buckets, and each bucket keeps the library's order.
C7_Class(f) ==
    IF f.vcodec # "none" /\ f.acodec # "none" THEN "video+audio"
    ELSE IF f.vcodec = "none" /\ f.acodec # "none" THEN "audio-only"
    ELSE "neither"

RECURSIVE C7_IdsOfClass(_, _)
C7_IdsOfClass(fs, class) ==
    IF fs = <<>> THEN <<>>
    ELSE (IF C7_Class(Head(fs)) = class THEN <<Head(fs).format_id>> ELSE <<>>)
            \o C7_IdsOfClass(Tail(fs), class)

RECURSIVE C7_Ids(_)
C7_Ids(options) ==
    IF options = <<>> THEN <<>>
    ELSE <<Head(options).format_id>> \o C7_Ids(Tail(options))

C7_Classification ==
    (pc = "done" /\ g_res.formats # Nothing /\ g_lib.has_formats) =>
        LET video_formats == SelectSeq(g_res.formats[1], IsVideoOption)
            audio_formats == SelectSeq(g_res.formats[1], IsAudioOption)
        IN  /\ C7_Ids(video_formats) = C7_IdsOfClass(g_lib.formats, "video+audio")
            /\ C7_Ids(audio_formats) = C7_IdsOfClass(g_lib.formats, "audio-only")
            /\ Len(video_formats) + Len(audio_formats) = Len(g_res.formats[1])
            /\ Len(g_res.formats[1]) + Len(C7_IdsOfClass(g_lib.formats, "neither"))
                  = Len(g_lib.formats)

C7_Witness ==
    /\ pc = "done"
    /\ g_res.formats # Nothing
    /\ g_lib.formats = << [vcodec |-> "none", acodec |-> "mp4a", format_id |-> "140"],
                          [vcodec |-> "avc1", acodec |-> "mp4a", format_id |-> "18"] >>
    /\ g_res.formats[1] = << [format_id |-> "18", type |-> "video+audio"],
                             [format_id |-> "140", type |-> "audio-only"] >>

\* s contains lit
Contains(s, lit) == \E i \in 1..(Len(s) + 1) : StartsWithAt(s, i, lit)

\* the four accepted shapes: watch-query, short link, embed path, /v/ path
AcceptedShapes ==
    { T_youtube \o T_dot \o T_com \o T_slash \o T_watch,
      T_youtu \o T_dot \o T_be \o T_slash,
      T_youtube \o T_dot \o T_com \o T_slash \o T_embed,
      T_youtube \o T_dot \o T_com \o T_slash \o T_v }

ContainsAcceptedShape(s) == \E shape \in AcceptedShapes : Contains(s, shape)

\* a host youtube, youtu or youtube-nocookie, then .com or .be, then "/"
HostPrefixes ==
    { host \o T_dot \o tld \o T_slash :
        host \in {T_youtube, T_youtu, T_nocookie}, tld \in {T_com, T_be} }

ContainsHost(s) == \E h \in HostPrefixes : Contains(s, h)

\* C8 as stated: is_valid_youtube_url returns true if and only if the string
\* contains one of the four accepted URL shapes.
C8_TrueIffAcceptedShape ==
    pc = "done" => (v_res <=> ContainsAcceptedShape(v_arg))

\* C8 as amended: is_valid_youtube_url returns true if and only if the string
\* contains, anywhere, a host youtube, youtu or youtube-nocookie followed by
\* .com/ or .be/, whatever path follows; this accepts each of the four shapes
\* (youtube.com/watch?v=abc among them) and rejects vimeo.com/12345.
C8_TrueIffHost ==
    pc = "done" =>
        /\ v_res <=> ContainsHost(v_arg)
        /\ ContainsAcceptedShape(v_arg) => v_res
        /\ v_arg = U_watch => v_res
        /\ v_arg = U_vimeo => ~v_res

C8_Witness ==
    /\ pc = "done"
    /\ v_arg = <<"x">> \o T_https \o T_www \o U_feed
    /\ v_res
    /\ ~ContainsAcceptedShape(v_arg)

\* the index of the highest non-zero limb of a non-zero byte count
C9_TopLimb(d) == CHOOSE j \in 1..Len(d) : d[j] # 0 /\ \A k \in (j + 1)..Len(d) : d[k] = 0

C9_UnitNames == <<"B", "KB", "MB", "GB", "TB">>
C9_Min(a, b) == IF a < b THEN a ELSE b
C9_Limbs(lo) == [j \in 1..NumLimbs |-> IF j <= Len(lo) THEN lo[j] ELSE 0]

\* C9: format_filesize returns "Unknown size" for 0, and otherwise reports the
\* count in the first of B, KB, MB, GB at which the count divided by 1024 per
\* step is below 1024, in TB when there is none; 500 is reported in B, 2048
\* as 2.0 KB and 1048576 as 1.0 MB.
C9_FirstUnitBelowBase ==
    pc = "done" =>
        /\ (\A j \in 1..Len(s_arg) : s_arg[j] = 0) <=> s_res = UnknownSize
        /\ (\E j \in 1..Len(s_arg) : s_arg[j] # 0) =>
              LET u == C9_Min(C9_TopLimb(s_arg), Len(C9_UnitNames))
              IN  /\ s_res.unit = C9_UnitNames[u]
                  /\ s_res.tenth \in 0..9
                  /\ s_res.whole \in { WholePart(s_arg, u - 1), WholePart(s_arg, u - 1) + 1 }
        /\ s_arg = C9_Limbs(<<500>>) => s_res = [whole |-> 500, tenth |-> 0, unit |-> "B"]
        /\ s_arg = C9_Limbs(<<0, 2>>) => s_res = [whole |-> 2, tenth |-> 0, unit |-> "KB"]
        /\ s_arg = C9_Limbs(<<0, 0, 1>>) => s_res = [whole |-> 1, tenth |-> 0, unit |-> "MB"]

C9_Witness ==
    /\ pc = "done"
    /\ s_arg = C9_Limbs(<<0, 1023, 1023>>)
    /\ s_res = [whole |-> 1024, tenth |-> 0, unit |-> "MB"]

\* C10: video_info, formats and url of the session were written by the same
\* successful fetch, all three or none; every download call passes the stored
\* url, whatever the URL field holds, and the format_id of an option of the
\* non-empty bucket of the stored formats that is selected.
C10_SessionConsistent ==
    /\ \/ /\ SessionData = <<Nothing, Nothing, Nothing>>
          /\ fetch_seq = 0
          /\ written_by = [video_info |-> 0, formats |-> 0, url |-> 0]
       \/ /\ ss_video_info # Nothing /\ ss_formats # Nothing /\ ss_url # Nothing
          /\ fetch_seq # 0
          /\ written_by = [video_info |-> fetch_seq, formats |-> fetch_seq, url |-> fetch_seq]
    /\ \A i \in 1..Len(lib_calls) :
          lib_calls[i].op = "download" =>
              LET options == formats_to_show(ss_formats[1], format_type)
              IN  /\ lib_calls[i].url = ss_url[1]
                  /\ options # <<>>
                  /\ \E k \in 1..Len(options) : lib_calls[i].format = options[k].format_id

C10_Witness ==
    /\ DownloadCalls # <<>>
    /\ ss_url = Some(U_watch)
    /\ url = U_short
    /\ lib_calls[1].url = U_watch
    /\ format_type = "Audio Only"

====
